---- MODULE Spec2Model ----
(***************************************************************************)
(* Model of the in-memory request-cache layer of SignAge-Web:              *)
(*   - CacheManager / CacheEntry            (services/cacheService.js)     *)
(*   - CachedAPIService and DataService     (services/cachedAPIService.js, *)
(*                                           services/dataService.js)      *)
(*   - CacheWarmer                          (services/cacheWarmingService) *)
(*                                                                         *)
(* Strings are TLA+ strings (Len, \o and SubSeq apply to them).  Times are *)
(* counted in minutes.  A JavaScript object is a function from its field   *)
(* names to leaf strings; a field that is absent reads as "undefined".     *)
(***************************************************************************)
EXTENDS Integers, Sequences, FiniteSets, Bags, TLC

VARIABLES
    now,          \* Date.now()
    store,        \* CacheManager.store : cacheKey -> CacheEntry
    stats,        \* CacheManager.stats
    defaultTTLs,  \* CacheManager.defaultTTLs
    listeners,    \* CacheManager.invalidationListeners : cacheKey -> number of callbacks
    ret,          \* the last call or continuation that ran: its name and what it returned
    inflight,     \* bag of the CachedAPIService calls suspended at an await
    requestQueue, \* apiService's requestQueue : request key -> value
    requests,     \* the apiService requests made, each with its axios config
    reduxEntries, \* the redux state.cache.entries : endpoint -> [isValid]
    currentUser,  \* auth.currentUser is set
    tasks,        \* WARMING_TASKS, in property order: <<[name, priority, writes]>>
    isWarming,    \* CacheWarmer.isWarming
    warmedTasks,  \* CacheWarmer.warmedTasks
    failedTasks,  \* CacheWarmer.failedTasks
    runs          \* the warmCache invocations that started warming, each with its locals

cacheVars  == <<store, stats, defaultTTLs, listeners>>
requestVars == <<requestQueue, requests>>
reduxVars  == <<reduxEntries>>
apiVars    == <<inflight, requestVars, reduxVars>>
warmerVars == <<currentUser, tasks, isWarming, warmedTasks, failedTasks, runs>>
vars == <<now, store, stats, defaultTTLs, listeners, ret, inflight, requestQueue, requests,
          reduxEntries, currentUser, tasks, isWarming, warmedTasks, failedTasks, runs>>

----------------------------------------------------------------------------
(* Bounds of the model *)

MaxTime == 2        \* the clock runs from 0 to MaxTime
MaxOps == 3         \* counted cache operations (hits + misses + invalidations + writes)
MaxApiOps == 4      \* counted cache operations of the wrapper's calls
MaxInflight == 2    \* wrapper calls suspended at the same time
MaxRequests == 2    \* apiService requests made

----------------------------------------------------------------------------
(* JavaScript values *)

\* null, as returned by CacheManager.get
Null == [null |-> "null"]

\* obj.name
Field(obj, name) == IF name \in DOMAIN obj THEN obj[name] ELSE "undefined"

\* ToBoolean of a leaf value
Truthy(v) == v \notin {"undefined", "null", "false", ""}

\* { ...obj, name: v }
Spread(obj, name, v) == [k \in DOMAIN obj \cup {name} |-> IF k = name THEN v ELSE obj[k]]

\* the payload object a response carries in its data field
PayloadObj(d) == [v |-> d]

\* String.prototype.startsWith
StartsWith(s, p) == Len(s) >= Len(p) /\ SubSeq(s, 1, Len(p)) = p

\* String.prototype.includes
Includes(s, p) == \E i \in 1..(Len(s) - Len(p) + 1) : SubSeq(s, i, i + Len(p) - 1) = p

\* key.substring(n)
Substring(s, n) == SubSeq(s, n + 1, Len(s))

\* new RegExp(pattern).test(s), for the patterns  lit  and  ^lit
\* (lit free of metacharacters; a trailing .* changes nothing)
RegexTest(pattern, s) ==
    IF pattern.anchored THEN StartsWith(s, pattern.lit) ELSE Includes(s, pattern.lit)

----------------------------------------------------------------------------
(* CacheEntry *)

DefaultTTL == 10
ProfileTTL == 5
StatsTTL == 3
LessonsTTL == 5
StreakTTL == 3
ProgressTTL == 3

NewCacheEntry(data, ttl, key) ==
    [data |-> data, ttl |-> ttl, timestamp |-> now, key |-> key,
     accessCount |-> 0, lastAccessTime |-> now]

IsValidWrong(entry) == now - entry.timestamp <= entry.ttl

IsValid(entry) == now - entry.timestamp < entry.ttl

GetTimeToLive(entry) ==
    LET age == now - entry.timestamp
    IN IF entry.ttl - age > 0 THEN entry.ttl - age ELSE 0

RecordAccess(entry) ==
    [entry EXCEPT !.accessCount = @ + 1, !.lastAccessTime = now]

----------------------------------------------------------------------------
(* CacheManager.  Each method is an operator from the manager's state      *)
(* cm = [store, stats] to the state after the call and the returned value. *)

InitStats == [hits |-> 0, misses |-> 0, invalidations |-> 0, writes |-> 0]

InitDefaultTTLs ==
    [profile |-> ProfileTTL, stats |-> StatsTTL, lessons |-> LessonsTTL,
     streak |-> StreakTTL, progress |-> ProgressTTL, default |-> DefaultTTL]

CM == [store |-> store, stats |-> stats]

\* a ttl argument: given or null/omitted
NoTTL == [given |-> FALSE, ms |-> 0]
TTL(n) == [given |-> TRUE, ms |-> n]
TTLTruthy(ttl) == ttl.given /\ ttl.ms # 0

\* map without one key
Remove(f, k) == [x \in DOMAIN f \ {k} |-> f[x]]

\* map with one key set
PutWrong(f, k, e) ==
    [x \in DOMAIN f \cup {k} |-> IF x = k /\ k \notin DOMAIN f THEN e ELSE f[x]]

Put(f, k, e) == [x \in DOMAIN f \cup {k} |-> IF x = k THEN e ELSE f[x]]

BuildKey(key, namespace) == namespace \o ":" \o key

Get(cm, key, namespace) ==
    LET cacheKey == BuildKey(key, namespace)
    IN IF cacheKey \notin DOMAIN cm.store
       THEN [store |-> cm.store,
             stats |-> [cm.stats EXCEPT !.misses = @ + 1],
             value |-> Null]
       ELSE IF ~IsValid(cm.store[cacheKey])
       THEN [store |-> Remove(cm.store, cacheKey),
             stats |-> [cm.stats EXCEPT !.invalidations = @ + 1],
             value |-> Null]
       ELSE [store |-> [cm.store EXCEPT ![cacheKey] = RecordAccess(@)],
             stats |-> [cm.stats EXCEPT !.hits = @ + 1],
             value |-> cm.store[cacheKey].data]

FinalTTL(ttl, namespace) ==
    IF TTLTruthy(ttl) THEN ttl.ms
    ELSE IF namespace \in DOMAIN defaultTTLs /\ defaultTTLs[namespace] # 0
    THEN defaultTTLs[namespace]
    ELSE defaultTTLs["default"]

SetEntry(cm, key, value, namespace, ttl) ==
    LET cacheKey == BuildKey(key, namespace)
        entry == NewCacheEntry(value, FinalTTL(ttl, namespace), cacheKey)
    IN [store |-> Put(cm.store, cacheKey, entry),
        stats |-> [cm.stats EXCEPT !.writes = @ + 1]]

Has(cm, key, namespace) ==
    LET cacheKey == BuildKey(key, namespace)
    IN IF cacheKey \notin DOMAIN cm.store
       THEN [store |-> cm.store, stats |-> cm.stats, found |-> FALSE]
       ELSE IF ~IsValid(cm.store[cacheKey])
       THEN [store |-> Remove(cm.store, cacheKey), stats |-> cm.stats, found |-> FALSE]
       ELSE [store |-> cm.store, stats |-> cm.stats, found |-> TRUE]

DeleteEntry(cm, key, namespace) ==
    LET cacheKey == BuildKey(key, namespace)
    IN IF cacheKey \in DOMAIN cm.store
       THEN [store |-> Remove(cm.store, cacheKey),
             stats |-> [cm.stats EXCEPT !.invalidations = @ + 1],
             deleted |-> TRUE]
       ELSE [store |-> cm.store, stats |-> cm.stats, deleted |-> FALSE]

\* clear(namespace): "" stands for the omitted (null) argument
ClearStore(cm, namespace) ==
    IF namespace # ""
    THEN [store |-> [k \in {x \in DOMAIN cm.store : ~StartsWith(x, namespace \o ":")}
                        |-> cm.store[k]],
          stats |-> cm.stats]
    ELSE [store |-> <<>>, stats |-> cm.stats]

Invalidate(cm, key, namespace) ==
    LET r == DeleteEntry(cm, key, namespace)
    IN [store |-> r.store, stats |-> r.stats]

PatternMatches(cm, pattern, namespace) ==
    {k \in DOMAIN cm.store : StartsWith(k, namespace \o ":") /\ RegexTest(pattern, k)}

InvalidatePattern(cm, pattern, namespace) ==
    LET hit == PatternMatches(cm, pattern, namespace)
    IN [store |-> [k \in DOMAIN cm.store \ hit |-> cm.store[k]],
        stats |-> cm.stats,
        count |-> Cardinality(hit)]

Prune(cm) ==
    LET dead == {k \in DOMAIN cm.store : ~IsValid(cm.store[k])}
    IN [store |-> [k \in DOMAIN cm.store \ dead |-> cm.store[k]],
        stats |-> cm.stats,
        pruned |-> Cardinality(dead)]

\* setNamespaceTTL: defaultTTLs[namespace] = ttl
SetNamespaceTTL(namespace, ttl) == Put(defaultTTLs, namespace, ttl)

\* export(): cacheKey -> snapshot of the entry
Export(cm) ==
    [k \in DOMAIN cm.store |->
        [data |-> cm.store[k].data,
         ttl |-> cm.store[k].ttl,
         age |-> now - cm.store[k].timestamp,
         isValid |-> IsValid(cm.store[k]),
         timeToLive |-> GetTimeToLive(cm.store[k]),
         accessCount |-> cm.store[k].accessCount]]

\* import(data): the store rebuilt from the snapshots
ImportWrong(cm, data) ==
    [store |-> [k \in DOMAIN data |->
                   [NewCacheEntry(data[k].data, data[k].ttl, k) EXCEPT
                        !.accessCount = data[k].accessCount]],
     stats |-> cm.stats]

Import(cm, data) ==
    [store |-> [k \in DOMAIN data |->
                   [NewCacheEntry(data[k].data, data[k].ttl, k) EXCEPT
                        !.timestamp = now - data[k].age,
                        !.accessCount = data[k].accessCount]],
     stats |-> cm.stats]

\* onInvalidate: one more callback in the list kept for the cache key
AddListener(key, namespace) ==
    LET cacheKey == BuildKey(key, namespace)
    IN Put(listeners, cacheKey,
           IF cacheKey \in DOMAIN listeners THEN listeners[cacheKey] + 1 ELSE 1)

\* _notifyInvalidation called for each of cacheKeys: the callbacks invoked,
\* as cacheKey -> number of invocations
NotifyInvalidation(cacheKeys) ==
    [k \in cacheKeys \cap DOMAIN listeners |-> listeners[k]]

\* the cache keys each method calls _notifyInvalidation for
DeleteNotifies(cm, key, namespace) ==
    IF DeleteEntry(cm, key, namespace).deleted THEN {BuildKey(key, namespace)} ELSE {}

ClearNotifies(cm, namespace) ==
    IF namespace # ""
    THEN {k \in DOMAIN cm.store : StartsWith(k, namespace \o ":")}
    ELSE {}

InvalidatePatternNotifies(cm, pattern, namespace) == PatternMatches(cm, pattern, namespace)

PruneNotifies(cm) == {k \in DOMAIN cm.store : ~IsValid(cm.store[k])}

----------------------------------------------------------------------------
(* Calls on the cache store *)

Namespaces == {"a", "a:b"}
Keys == {"x", "b:x"}
Values == {PayloadObj("v1"), PayloadObj("v2")}
TTLArgs == {NoTTL, TTL(1)}
Patterns == {[anchored |-> FALSE, lit |-> "x"], [anchored |-> TRUE, lit |-> "x"]}

OpCount == stats.hits + stats.misses + stats.invalidations + stats.writes

Tick ==
    /\ now < MaxTime
    /\ now' = now + 1
    /\ ret' = [op |-> "tick"]
    /\ UNCHANGED <<cacheVars, apiVars, warmerVars>>

CallGet(key, namespace) ==
    /\ OpCount < MaxOps
    /\ LET r == Get(CM, key, namespace)
       IN /\ store' = r.store
          /\ stats' = r.stats
          /\ ret' = [op |-> "get", value |-> r.value]
    /\ UNCHANGED <<now, defaultTTLs, listeners, apiVars, warmerVars>>

CallSet(key, value, namespace, ttl) ==
    /\ OpCount < MaxOps
    /\ LET r == SetEntry(CM, key, value, namespace, ttl)
       IN /\ store' = r.store
          /\ stats' = r.stats
          /\ ret' = [op |-> "set"]
    /\ UNCHANGED <<now, defaultTTLs, listeners, apiVars, warmerVars>>

CallHas(key, namespace) ==
    /\ LET r == Has(CM, key, namespace)
       IN /\ store' = r.store
          /\ stats' = r.stats
          /\ ret' = [op |-> "has", found |-> r.found]
    /\ UNCHANGED <<now, defaultTTLs, listeners, apiVars, warmerVars>>

CallDelete(key, namespace) ==
    /\ OpCount < MaxOps
    /\ LET r == DeleteEntry(CM, key, namespace)
       IN /\ store' = r.store
          /\ stats' = r.stats
          /\ ret' = [op |-> "delete", deleted |-> r.deleted,
                     notified |-> NotifyInvalidation(DeleteNotifies(CM, key, namespace))]
    /\ UNCHANGED <<now, defaultTTLs, listeners, apiVars, warmerVars>>

CallClear(namespace) ==
    /\ LET r == ClearStore(CM, namespace)
       IN /\ store' = r.store
          /\ stats' = r.stats
          /\ ret' = [op |-> "clear",
                     notified |-> NotifyInvalidation(ClearNotifies(CM, namespace))]
    /\ UNCHANGED <<now, defaultTTLs, listeners, apiVars, warmerVars>>

CallInvalidatePattern(pattern, namespace) ==
    /\ LET r == InvalidatePattern(CM, pattern, namespace)
       IN /\ store' = r.store
          /\ stats' = r.stats
          /\ ret' = [op |-> "invalidatePattern", count |-> r.count,
                     notified |-> NotifyInvalidation(
                                      InvalidatePatternNotifies(CM, pattern, namespace))]
    /\ UNCHANGED <<now, defaultTTLs, listeners, apiVars, warmerVars>>

CallPrune ==
    /\ LET r == Prune(CM)
       IN /\ store' = r.store
          /\ stats' = r.stats
          /\ ret' = [op |-> "prune", pruned |-> r.pruned,
                     notified |-> NotifyInvalidation(PruneNotifies(CM))]
    /\ UNCHANGED <<now, defaultTTLs, listeners, apiVars, warmerVars>>

CallSetNamespaceTTL(namespace, ttl) ==
    /\ defaultTTLs' = SetNamespaceTTL(namespace, ttl)
    /\ ret' = [op |-> "setNamespaceTTL"]
    /\ UNCHANGED <<now, store, stats, listeners, apiVars, warmerVars>>

CallImport(data) ==
    /\ LET r == Import(CM, data)
       IN /\ store' = r.store
          /\ stats' = r.stats
          /\ ret' = [op |-> "import"]
    /\ UNCHANGED <<now, defaultTTLs, listeners, apiVars, warmerVars>>

MaxListeners == 1   \* callbacks registered with onInvalidate

RECURSIVE SumOf(_)
SumOf(f) ==
    IF DOMAIN f = {} THEN 0
    ELSE LET k == CHOOSE x \in DOMAIN f : TRUE
         IN f[k] + SumOf(Remove(f, k))

CallOnInvalidate(key, namespace) ==
    /\ SumOf(listeners) < MaxListeners
    /\ listeners' = AddListener(key, namespace)
    /\ ret' = [op |-> "onInvalidate"]
    /\ UNCHANGED <<now, store, stats, defaultTTLs, apiVars, warmerVars>>

----------------------------------------------------------------------------
(* apiService: every method resolves with createResponse(...) and never    *)
(* throws (makeRequest catches).  The response's timestamp is left out.    *)

ApiOk(d) == [success |-> "true", data |-> d, error |-> "null", errorType |-> "null"]

ApiFail ==
    [success |-> "false", data |-> "null",
     error |-> "Network error. Please check your connection.",
     errorType |-> "NETWORK_ERROR"]

\* getRequestKey(method, url, data): data is the JSON text of the request
\* body, "" when there is none
GetRequestKey(method, url, data) == method \o ":" \o url \o ":" \o data

\* an axios error is [response |-> "none"] (no response was received) or
\* [response |-> the status of the response]
GetErrorType(error) ==
    IF error.response = "none" THEN "NETWORK_ERROR"
    ELSE CASE error.response = "401" -> "AUTH_ERROR"
           [] error.response = "400" -> "VALIDATION_ERROR"
           [] error.response = "404" -> "NOT_FOUND"
           [] error.response = "500" -> "SERVER_ERROR"
           [] OTHER -> "UNKNOWN_ERROR"

\* the server's body carries no message of its own here
GetErrorMessage(error, errorType) ==
    CASE errorType = "NETWORK_ERROR" -> "Network error. Please check your connection."
      [] errorType = "AUTH_ERROR" -> "Authentication failed. Please log in again."
      [] errorType = "VALIDATION_ERROR" -> "Invalid request data."
      [] errorType = "NOT_FOUND" -> "Resource not found."
      [] errorType = "SERVER_ERROR" -> "Server error. Please try again later."
      [] OTHER -> "An unexpected error occurred."

\* makeRequest's catch: createResponse(false, null, errorMessage, errorType)
ErrorResponse(error) ==
    [success |-> "false", data |-> "null",
     error |-> GetErrorMessage(error, GetErrorType(error)),
     errorType |-> GetErrorType(error)]

MaxRetries == 2

\* the response interceptor's retry test
ShouldRetryWrong(retryCount, error) == retryCount < MaxRetries

ShouldRetry(retryCount, error) == retryCount < MaxRetries /\ error.response = "none"

\* the request interceptor: the config the request goes on with.  A key found
\* in requestQueue hands back the queued value in place of the config.
RequestInterceptor(config) ==
    LET requestKey == GetRequestKey(config.method, config.url, config.data)
    IN IF requestKey \in DOMAIN requestQueue
       THEN requestQueue[requestKey]
       ELSE [config EXCEPT !.requestKey = requestKey]

\* the requests whose network call is under way
OnNetwork == {i \in DOMAIN requests : requests[i].state = "network"}

ApiRequests ==
    {[method |-> "get", url |-> "/lessons", data |-> ""],
     [method |-> "get", url |-> "/progress", data |-> ""]}

\* how a network call ends: a 2xx response, no response at all, an error status
NetworkOutcomes ==
    {[kind |-> "response", data |-> "d1"],
     [kind |-> "error", response |-> "none"],
     [kind |-> "error", response |-> "500"]}

\* makeRequest up to its await: the request interceptor runs and the network
\* call starts
MakeRequest(req) ==
    /\ Len(requests) < MaxRequests
    /\ LET config == RequestInterceptor(
                         [method |-> req.method, url |-> req.url, data |-> req.data,
                          requestKey |-> "undefined", retryCount |-> 0])
       IN requests' = Append(requests,
                         [config |-> config, attempts |-> 1, state |-> "network",
                          result |-> Null])
    /\ ret' = [op |-> "makeRequest", outcome |-> "pending"]
    /\ UNCHANGED <<now, cacheVars, inflight, requestQueue, reduxVars, warmerVars>>

\* the network call of request i ends: the response interceptor runs, and
\* makeRequest resolves unless the interceptor waits to retry
NetworkSettles(i, outcome) ==
    /\ i \in OnNetwork
    /\ LET r == requests[i]
           queue == IF r.config.requestKey # "undefined"
                    THEN Remove(requestQueue, r.config.requestKey)
                    ELSE requestQueue
       IN /\ requestQueue' = queue
          /\ IF outcome.kind = "response"
             THEN /\ requests' = [requests EXCEPT ![i].state = "done",
                                                  ![i].result = ApiOk(outcome.data)]
                  /\ ret' = [op |-> "makeRequest", outcome |-> "return", request |-> i,
                             result |-> ApiOk(outcome.data)]
             ELSE IF ShouldRetry(r.config.retryCount, outcome)
             THEN /\ requests' = [requests EXCEPT ![i].state = "backoff",
                                                  ![i].config.retryCount = @ + 1]
                  /\ ret' = [op |-> "retry", outcome |-> "pending", request |-> i]
             ELSE /\ requests' = [requests EXCEPT ![i].state = "done",
                                                  ![i].result = ErrorResponse(outcome)]
                  /\ ret' = [op |-> "makeRequest", outcome |-> "return", request |-> i,
                             result |-> ErrorResponse(outcome)]
    /\ UNCHANGED <<now, cacheVars, inflight, reduxVars, warmerVars>>

\* the backoff timer of request i fires: instance(config) sends it again
BackoffElapses(i) ==
    /\ i \in DOMAIN requests
    /\ requests[i].state = "backoff"
    /\ requests' = [requests EXCEPT ![i].config = RequestInterceptor(@),
                                    ![i].attempts = @ + 1,
                                    ![i].state = "network"]
    /\ ret' = [op |-> "retry", outcome |-> "sent", request |-> i]
    /\ UNCHANGED <<now, cacheVars, inflight, requestQueue, reduxVars, warmerVars>>

ClearRequestQueue ==
    /\ requestQueue' = <<>>
    /\ ret' = [op |-> "clearRequestQueue"]
    /\ UNCHANGED <<now, cacheVars, inflight, requests, reduxVars, warmerVars>>

----------------------------------------------------------------------------
(* CachedAPIService *)

ConfigLessonsTTL == 5
ConfigProgressTTL == 3
ConfigStreakTTL == 3
ConfigHealthTTL == 1
ConfigDefaultTTL == 10

CACHE_CONFIG ==
    [e \in {"/lessons", "/progress", "/streak", "/health"} |->
        CASE e = "/lessons"  -> [ttl |-> ConfigLessonsTTL, namespace |-> "lessons"]
          [] e = "/progress" -> [ttl |-> ConfigProgressTTL, namespace |-> "progress"]
          [] e = "/streak"   -> [ttl |-> ConfigStreakTTL, namespace |-> "streak"]
          [] e = "/health"   -> [ttl |-> ConfigHealthTTL, namespace |-> "health"]]

GetCacheConfig(endpoint) ==
    IF endpoint \in DOMAIN CACHE_CONFIG
    THEN CACHE_CONFIG[endpoint]
    ELSE [ttl |-> ConfigDefaultTTL, namespace |-> "default"]

\* the wrapper's read methods: the endpoint and cache key each passes to cachedCall
GetAllLessons == [method |-> "getAllLessons", endpoint |-> "/lessons", cacheKey |-> "all_lessons"]
GetLessonById(lessonId) ==
    [method |-> "getLessonById", endpoint |-> "/lessons/" \o lessonId,
     cacheKey |-> "lesson_" \o lessonId]
GetProgress == [method |-> "getProgress", endpoint |-> "/progress", cacheKey |-> "progress"]
GetStreak == [method |-> "getStreak", endpoint |-> "/streak", cacheKey |-> "streak"]
HealthCheck == [method |-> "healthCheck", endpoint |-> "/health", cacheKey |-> "health"]
\* a direct cachedCall with a caller-supplied fetcher; cacheKey defaults to the endpoint
CustomCall == [method |-> "cachedCall", endpoint |-> "/custom", cacheKey |-> "/custom"]

\* result?.success || (!result?.error)
IsSuccess(result) == Truthy(Field(result, "success")) \/ ~Truthy(Field(result, "error"))

\* result?.data || result
DataToCache(result) ==
    IF Truthy(Field(result, "data")) THEN PayloadObj(Field(result, "data")) ELSE result

\* cachedCall up to its first await: done with the returned value, or the
\* fetcher has been invoked and the call is suspended
CachedCallBeginWrong(cm, call, strategy, skipCache) ==
    LET config == GetCacheConfig(call.endpoint)
        g == Get(cm, call.cacheKey, config.namespace)
    IN IF skipCache
       THEN [store |-> cm.store, stats |-> cm.stats, done |-> FALSE, result |-> Null]
       ELSE IF strategy \in {"cache-first", "network-only"}
       THEN IF g.value # Null
            THEN [store |-> g.store, stats |-> g.stats, done |-> TRUE,
                  result |-> Spread(g.value, "_source", "cache")]
            ELSE [store |-> g.store, stats |-> g.stats, done |-> FALSE, result |-> Null]
       ELSE [store |-> cm.store, stats |-> cm.stats, done |-> FALSE, result |-> Null]

CachedCallBegin(cm, call, strategy, skipCache) ==
    LET config == GetCacheConfig(call.endpoint)
        g == Get(cm, call.cacheKey, config.namespace)
    IN IF skipCache
       THEN [store |-> cm.store, stats |-> cm.stats, done |-> FALSE, result |-> Null]
       ELSE IF strategy = "cache-first"
       THEN IF g.value # Null
            THEN [store |-> g.store, stats |-> g.stats, done |-> TRUE,
                  result |-> Spread(g.value, "_source", "cache")]
            ELSE [store |-> g.store, stats |-> g.stats, done |-> FALSE, result |-> Null]
       ELSE [store |-> cm.store, stats |-> cm.stats, done |-> FALSE, result |-> Null]

\* cachedCall from the point where the fetcher settles with outcome
\* [kind |-> "return" | "throw", result]
CachedCallResume(cm, call, strategy, skipCache, outcome) ==
    LET config == GetCacheConfig(call.endpoint)
        w == SetEntry(cm, call.cacheKey, DataToCache(outcome.result),
                      config.namespace, TTL(config.ttl))
        g == Get(cm, call.cacheKey, config.namespace)
    IN IF skipCache
       THEN [store |-> cm.store, stats |-> cm.stats, kind |-> outcome.kind,
             source |-> "network", result |-> outcome.result]
       ELSE IF outcome.kind = "return"
       THEN IF IsSuccess(outcome.result)
            THEN [store |-> w.store, stats |-> w.stats, kind |-> "return",
                  source |-> "network", result |-> outcome.result]
            ELSE [store |-> cm.store, stats |-> cm.stats, kind |-> "return",
                  source |-> "network", result |-> outcome.result]
       ELSE IF strategy = "network-first"
       THEN IF g.value # Null
            THEN [store |-> g.store, stats |-> g.stats, kind |-> "return",
                  source |-> "cache-fallback",
                  result |-> Spread(g.value, "_source", "cache-fallback")]
            ELSE [store |-> g.store, stats |-> g.stats, kind |-> "throw",
                  source |-> "network", result |-> Null]
       ELSE [store |-> cm.store, stats |-> cm.stats, kind |-> "throw",
             source |-> "network", result |-> Null]

\* the cache entries each mutation invalidates, in order
MutationInvalidationsWrong(mutation) ==
    CASE mutation = "completeLesson" ->
            <<[key |-> "all_lessons", namespace |-> "lessons"]>>
      [] mutation = "updateProgress" -> <<>>
      [] mutation = "updateStreak" ->
            <<[key |-> "streak", namespace |-> "streak"]>>

MutationInvalidations(mutation) ==
    CASE mutation = "completeLesson" ->
            <<[key |-> "all_lessons", namespace |-> "lessons"],
              [key |-> "progress", namespace |-> "progress"]>>
      [] mutation = "updateProgress" ->
            <<[key |-> "progress", namespace |-> "progress"]>>
      [] mutation = "updateStreak" ->
            <<[key |-> "streak", namespace |-> "streak"],
              [key |-> "progress", namespace |-> "progress"]>>

RECURSIVE InvalidateAll(_, _)
InvalidateAll(cm, entries) ==
    IF entries = <<>> THEN [store |-> cm.store, stats |-> cm.stats]
    ELSE InvalidateAll(Invalidate(cm, Head(entries).key, Head(entries).namespace),
                       Tail(entries))

\* if (result.success)
ShouldInvalidateAlways(result) == TRUE

ShouldInvalidate(result) == Truthy(Field(result, "success"))

\* a mutation method from the point where apiService resolves with result
MutationResume(cm, mutation, result) ==
    IF ShouldInvalidate(result)
    THEN InvalidateAll(cm, MutationInvalidations(mutation))
    ELSE [store |-> cm.store, stats |-> cm.stats]

----------------------------------------------------------------------------
(* DataService: what fetchUserStats / fetchCompletedLessons return, given  *)
(* how their cachedAPIService call settled.                                *)

DataServiceCall(caller) ==
    CASE caller = "fetchUserStats" -> GetProgress
      [] caller = "fetchCompletedLessons" -> GetAllLessons

DataServiceReturn(caller, kind, result) ==
    IF caller = "direct" THEN Null
    ELSE IF kind = "throw"
    THEN [success |-> "false", error |-> "thrown"]
    ELSE IF ~Truthy(Field(result, "success"))
    THEN [success |-> "false",
          error |-> IF Truthy(Field(result, "error")) THEN Field(result, "error")
                    ELSE "Failed to fetch"]
    ELSE IF caller = "fetchUserStats"
    THEN [success |-> "true", source |-> "api", stats |-> Field(result, "data")]
    ELSE [success |-> "true", source |-> "api", lessons |-> Field(result, "data")]

----------------------------------------------------------------------------
(* Calls on the wrapper.  A call that awaits the network is kept in        *)
(* inflight until its fetcher settles.                                     *)


LessonIds == {"1"}
Payloads == {"d1", "d2"}
Strategies == {"cache-first", "network-first", "cache-only", "network-only"}
ReadCalls ==
    {GetAllLessons, GetProgress, GetStreak, HealthCheck, CustomCall}
        \cup {GetLessonById(id) : id \in LessonIds}
\* the cachedCall invocations of SpecApi: every strategy and skipCache on one
\* wrapper method, and a caller-supplied fetcher under two strategies
ApiCalls ==
    {[call |-> GetProgress, strategy |-> st, skipCache |-> FALSE] : st \in Strategies}
        \cup {[call |-> GetProgress, strategy |-> "cache-first", skipCache |-> TRUE]}
        \cup {[call |-> CustomCall, strategy |-> st, skipCache |-> FALSE] :
                  st \in {"cache-first", "network-first"}}
\* the reads of SpecMutation: the resources the mutations invalidate
MutationReads == {GetAllLessons, GetProgress, GetStreak}
Mutations == {"completeLesson", "updateProgress", "updateStreak"}
DataCallers == {"fetchUserStats", "fetchCompletedLessons"}

\* how the fetcher of a read call can settle
FetcherOutcomes(call) ==
    IF call.method = "cachedCall"
    THEN {[kind |-> "throw", result |-> Null],
          [kind |-> "return", result |-> PayloadObj("d1")],
          [kind |-> "return", result |-> [success |-> "false"]],
          [kind |-> "return", result |-> [error |-> "failed"]]}
    ELSE {[kind |-> "return", result |-> ApiOk(d)] : d \in Payloads}
            \cup {[kind |-> "return", result |-> ApiFail]}

Suspend(c) == inflight (+) SetToBag({c})
Resume(c) == inflight (-) SetToBag({c})
CanSuspend == BagCardinality(inflight) < MaxInflight
\* the calls started perform at most MaxApiOps counted cache operations in
\* all, one for each suspended call included
CanCall == OpCount + BagCardinality(inflight) < MaxApiOps

CachedCall(call, strategy, skipCache, caller) ==
    /\ CanCall
    /\ LET b == CachedCallBegin(CM, call, strategy, skipCache)
       IN /\ b.done \/ CanSuspend
          /\ store' = b.store
          /\ stats' = b.stats
          /\ IF b.done
             THEN /\ inflight' = inflight
                  /\ ret' = [op |-> "cachedCall", outcome |-> "return", source |-> "cache",
                             method |-> call.method, result |-> b.result, caller |-> caller,
                             callerResult |-> DataServiceReturn(caller, "return", b.result)]
             ELSE /\ inflight' = Suspend([kind |-> "read", call |-> call,
                                          strategy |-> strategy,
                                          skipCache |-> skipCache, caller |-> caller])
                  /\ ret' = [op |-> "cachedCall", outcome |-> "pending"]
    /\ UNCHANGED <<now, defaultTTLs, listeners, requestVars, reduxVars, warmerVars>>

DataServiceCalls(caller) ==
    CachedCall(DataServiceCall(caller), "cache-first", FALSE, caller)

FetcherSettles(c, outcome) ==
    /\ c \in BagToSet(inflight)
    /\ c.kind = "read"
    /\ outcome \in FetcherOutcomes(c.call)
    /\ LET r == CachedCallResume(CM, c.call, c.strategy, c.skipCache, outcome)
       IN /\ store' = r.store
          /\ stats' = r.stats
          /\ ret' = [op |-> "cachedCall", outcome |-> r.kind, source |-> r.source,
                     method |-> c.call.method, result |-> r.result, caller |-> c.caller,
                     callerResult |-> DataServiceReturn(c.caller, r.kind, r.result)]
    /\ inflight' = Resume(c)
    /\ UNCHANGED <<now, defaultTTLs, listeners, requestVars, reduxVars, warmerVars>>

\* cachedAPIService.clearCache(namespace = null): cacheService.clear(namespace)
ClearCache(namespace) == CallClear(namespace)

MutationCall(mutation) ==
    /\ CanCall
    /\ CanSuspend
    /\ inflight' = Suspend([kind |-> "mutation", mutation |-> mutation])
    /\ ret' = [op |-> "mutation", outcome |-> "pending"]
    /\ UNCHANGED <<now, cacheVars, requestVars, reduxVars, warmerVars>>

MutationSettles(c, result) ==
    /\ c \in BagToSet(inflight)
    /\ c.kind = "mutation"
    /\ LET r == MutationResume(CM, c.mutation, result)
       IN /\ store' = r.store
          /\ stats' = r.stats
    /\ ret' = [op |-> "mutation", outcome |-> "return", mutation |-> c.mutation,
               result |-> result]
    /\ inflight' = Resume(c)
    /\ UNCHANGED <<now, defaultTTLs, listeners, requestVars, reduxVars, warmerVars>>

----------------------------------------------------------------------------
(* cacheService.getOrFetch *)

\* getOrFetch up to its await: done with {data, source: 'cache'}, or the
\* fetcher has been invoked
GetOrFetchBegin(cm, key, namespace) ==
    LET g == Get(cm, key, namespace)
    IN [store |-> g.store, stats |-> g.stats, done |-> g.value # Null, data |-> g.value]

\* getOrFetch from the point where its fetcher settles with outcome
\* [kind |-> "return" | "throw", result]
GetOrFetchResume(cm, key, namespace, ttl, outcome) ==
    IF outcome.kind = "return"
    THEN LET w == SetEntry(cm, key, outcome.result, namespace, ttl)
         IN [store |-> w.store, stats |-> w.stats, kind |-> "return",
             data |-> outcome.result]
    ELSE [store |-> cm.store, stats |-> cm.stats, kind |-> "throw", data |-> Null]

\* the fetchers handed to getOrFetch: an apiService method, which resolves
\* with a normalized response, or a function of the caller's that may throw
GetOrFetchOutcomes ==
    {[kind |-> "return", result |-> ApiOk("d1")],
     [kind |-> "return", result |-> ApiFail],
     [kind |-> "throw", result |-> Null]}

GetOrFetch(key, namespace, ttl) ==
    /\ CanCall
    /\ LET b == GetOrFetchBegin(CM, key, namespace)
       IN /\ b.done \/ CanSuspend
          /\ store' = b.store
          /\ stats' = b.stats
          /\ IF b.done
             THEN /\ inflight' = inflight
                  /\ ret' = [op |-> "getOrFetch", outcome |-> "return", source |-> "cache",
                             key |-> key, namespace |-> namespace, data |-> b.data]
             ELSE /\ inflight' = Suspend([kind |-> "getOrFetch", key |-> key,
                                          namespace |-> namespace, ttl |-> ttl])
                  /\ ret' = [op |-> "getOrFetch", outcome |-> "pending"]
    /\ UNCHANGED <<now, defaultTTLs, listeners, requestVars, reduxVars, warmerVars>>

GetOrFetchSettles(c, outcome) ==
    /\ c \in BagToSet(inflight)
    /\ c.kind = "getOrFetch"
    /\ LET r == GetOrFetchResume(CM, c.key, c.namespace, c.ttl, outcome)
       IN /\ store' = r.store
          /\ stats' = r.stats
          /\ ret' = [op |-> "getOrFetch", outcome |-> r.kind, source |-> "api",
                     key |-> c.key, namespace |-> c.namespace, data |-> r.data]
    /\ inflight' = Resume(c)
    /\ UNCHANGED <<now, defaultTTLs, listeners, requestVars, reduxVars, warmerVars>>

----------------------------------------------------------------------------
(* useCachedAPI with cacheStrategy 'cache-first', and the cacheSlice       *)
(* entries it reads and writes (an entry's lastUpdate, ttl and size are    *)
(* left out)                                                               *)

\* selectCacheIsValid: state.cache.entries[endpoint]?.isValid ?? false
SelectCacheIsValid(endpoint) ==
    IF endpoint \in DOMAIN reduxEntries THEN reduxEntries[endpoint].isValid ELSE FALSE

\* the setCacheEntry reducer
SetCacheEntry(endpoint, isValid) == Put(reduxEntries, endpoint, [isValid |-> isValid])

\* the invalidateCacheEntry reducer
InvalidateCacheEntry(endpoint) ==
    IF endpoint \in DOMAIN reduxEntries
    THEN [reduxEntries EXCEPT ![endpoint].isValid = FALSE]
    ELSE reduxEntries

\* execute's test for serving from the cache: cached !== null && isCacheValid
HookServesCached(cached, endpoint) == cached # Null /\ SelectCacheIsValid(endpoint)

\* result?.success || result?.data
HookSuccess(result) == Truthy(Field(result, "success")) \/ Truthy(Field(result, "data"))

\* the hook's option ttl = null
HookTTL == NoTTL

\* execute up to its first await
HookExecute(cacheKey, namespace) ==
    /\ CanCall
    /\ LET g == Get(CM, cacheKey, namespace)
           endpoint == BuildKey(cacheKey, namespace)
       IN /\ store' = g.store
          /\ stats' = g.stats
          /\ IF HookServesCached(g.value, endpoint)
             THEN /\ reduxEntries' = SetCacheEntry(endpoint, TRUE)
                  /\ inflight' = inflight
                  /\ ret' = [op |-> "execute", outcome |-> "return", source |-> "cache",
                             data |-> g.value]
             ELSE /\ CanSuspend
                  /\ reduxEntries' = reduxEntries
                  /\ inflight' = Suspend([kind |-> "hook", cacheKey |-> cacheKey,
                                          namespace |-> namespace])
                  /\ ret' = [op |-> "execute", outcome |-> "pending"]
    /\ UNCHANGED <<now, defaultTTLs, listeners, requestVars, warmerVars>>

\* execute from the point where its fetcher resolves with result
HookFetcherSettles(c, result) ==
    /\ c \in BagToSet(inflight)
    /\ c.kind = "hook"
    /\ inflight' = Resume(c)
    /\ IF HookSuccess(result)
       THEN LET w == SetEntry(CM, c.cacheKey, DataToCache(result), c.namespace, HookTTL)
            IN /\ store' = w.store
               /\ stats' = w.stats
               /\ reduxEntries' = SetCacheEntry(BuildKey(c.cacheKey, c.namespace), TRUE)
               /\ ret' = [op |-> "execute", outcome |-> "return", source |-> "api",
                          data |-> DataToCache(result)]
       ELSE /\ UNCHANGED <<store, stats, reduxEntries>>
            /\ ret' = [op |-> "execute", outcome |-> "throw"]
    /\ UNCHANGED <<now, defaultTTLs, listeners, requestVars, warmerVars>>

\* the hook's invalidate()
HookInvalidate(cacheKey, namespace) ==
    /\ OpCount < MaxApiOps
    /\ LET d == Invalidate(CM, cacheKey, namespace)
       IN /\ store' = d.store
          /\ stats' = d.stats
    /\ reduxEntries' = InvalidateCacheEntry(BuildKey(cacheKey, namespace))
    /\ ret' = [op |-> "invalidate"]
    /\ UNCHANGED <<now, defaultTTLs, listeners, inflight, requestVars, warmerVars>>

----------------------------------------------------------------------------
(* CacheWarmer *)

CRITICAL == 1
HIGH == 2
MEDIUM == 3

\* WARMING_TASKS as defined at load time.  writes names the cache entry the
\* task's fetcher sets on success ("" for a registered task, whose fetcher is
\* the caller's).  A task's timeout is not a number here: its timer may fire
\* at any moment the fetcher has not settled.
InitTasks ==
    <<[name |-> "getUserProgress", priority |-> CRITICAL, writes |-> "progress"],
      [name |-> "getLessons", priority |-> HIGH, writes |-> "lessons"],
      [name |-> "getUserStreak", priority |-> MEDIUM, writes |-> "streak"]>>

\* the key a default task's fetcher writes in namespace writes
WarmKey(writes) ==
    CASE writes = "progress" -> "progress"
      [] writes = "lessons" -> "all_lessons"
      [] writes = "streak" -> "streak"

\* String(n), as the sequence of its decimal digits
RECURSIVE Digits(_)
Digits(n) == IF n < 10 THEN <<n>> ELSE Digits(n \div 10) \o <<n % 10>>

\* s < t for strings, by code units
LexLess(s, t) ==
    \E k \in 0..Len(s) :
        /\ k <= Len(t)
        /\ \A i \in 1..k : s[i] = t[i]
        /\ \/ (k = Len(s) /\ k < Len(t))
           \/ (k < Len(s) /\ k < Len(t) /\ s[k + 1] < t[k + 1])

\* Array.prototype.sort() with no comparator: by the elements' strings
RECURSIVE DefaultSort(_)
DefaultSort(S) ==
    IF S = {} THEN <<>>
    ELSE LET m == CHOOSE x \in S : \A y \in S \ {x} : LexLess(Digits(x), Digits(y))
         IN <<m>> \o DefaultSort(S \ {m})

\* tasksToRun grouped by priority: priority -> the tier's tasks, in order
PriorityGroupsWrong(threshold) ==
    LET selected == SelectSeq(tasks, LAMBDA t : t.priority < threshold)
        prios == {selected[i].priority : i \in DOMAIN selected}
    IN [pr \in prios |-> SelectSeq(selected, LAMBDA t : t.priority = pr)]

PriorityGroups(threshold) ==
    LET selected == SelectSeq(tasks, LAMBDA t : t.priority <= threshold)
        prios == {selected[i].priority : i \in DOMAIN selected}
    IN [pr \in prios |-> SelectSeq(selected, LAMBDA t : t.priority = pr)]

SortedPriorities(groups) == DefaultSort(DOMAIN groups)

\* the names of a tier's tasks
TierNames(tier) == {tier[i].name : i \in DOMAIN tier}

\* the tasks of the tier a run is executing
CurrentTier(run) == run.groups[run.sortedPriorities[run.tier]]

\* registerTask: WARMING_TASKS[name] = {priority, fetcher, timeout}
WithTask(name, priority) ==
    IF \E i \in DOMAIN tasks : tasks[i].name = name
    THEN [i \in DOMAIN tasks |->
            IF tasks[i].name = name
            THEN [name |-> name, priority |-> priority, writes |-> ""]
            ELSE tasks[i]]
    ELSE Append(tasks, [name |-> name, priority |-> priority, writes |-> ""])

\* the stats object warmCache returns and passes to the completion callbacks
WarmStatsWrong(warmed, failed, total) ==
    [success |-> TRUE, warmed |-> Cardinality(warmed) + Cardinality(failed),
     failed |-> 0, total |-> total, failedTasks |-> {}]

WarmStats(warmed, failed, total) ==
    [success |-> failed = {}, warmed |-> Cardinality(warmed),
     failed |-> Cardinality(failed), total |-> total, failedTasks |-> failed]

InProgress == {i \in DOMAIN runs : ~runs[i].done}

\* the number of tasks the runs so far selected
RECURSIVE Selected(_)
Selected(n) ==
    IF n = 0 THEN 0
    ELSE Selected(n - 1) + Cardinality(UNION {TierNames(runs[n].groups[pr]) : pr \in DOMAIN runs[n].groups})

----------------------------------------------------------------------------
(* Calls on the warmer, and the steps of a warming run *)

MaxSelected == 4    \* tasks selected by the warming runs altogether

Thresholds == {HIGH, 10}
RegisterNames == {"extra"}
RegisterPriorities == {10}

Login ==
    /\ ~currentUser
    /\ currentUser' = TRUE
    /\ ret' = [op |-> "login"]
    /\ UNCHANGED <<now, cacheVars, apiVars, tasks, isWarming, warmedTasks, failedTasks,
                   runs>>

\* useAuth.logout: signOut(auth) leaves no current user; DataService.invalidateCache
\* resets dataService's own three slots, which nothing ever fills, and touches
\* neither the Cache Store nor the warmer
Logout ==
    /\ currentUser
    /\ currentUser' = FALSE
    /\ ret' = [op |-> "logout"]
    /\ UNCHANGED <<now, cacheVars, apiVars, tasks, isWarming, warmedTasks, failedTasks,
                   runs>>

RegisterTask(name, priority) ==
    /\ tasks' = WithTask(name, priority)
    /\ ret' = [op |-> "registerTask"]
    /\ UNCHANGED <<now, cacheVars, apiVars, currentUser, isWarming, warmedTasks,
                   failedTasks, runs>>

Reset ==
    /\ isWarming' = FALSE
    /\ warmedTasks' = {}
    /\ failedTasks' = {}
    /\ ret' = [op |-> "reset"]
    /\ UNCHANGED <<now, cacheVars, apiVars, currentUser, tasks, runs>>

\* the early returns of warmCache: a run in progress, or no authenticated user
WarmCacheSkipsWrong == isWarming

WarmCacheSkips == isWarming \/ ~currentUser

\* warmCache up to its first await
WarmCache(priorityThreshold) ==
    /\ UNCHANGED <<now, cacheVars, apiVars, currentUser, tasks>>
    /\ IF WarmCacheSkips
       THEN /\ ret' = [op |-> "warmCache", outcome |-> "return", result |-> FALSE]
            /\ UNCHANGED <<isWarming, warmedTasks, failedTasks, runs>>
       ELSE LET groups == PriorityGroups(priorityThreshold)
                sorted == SortedPriorities(groups)
                runId == Len(runs) + 1
                selected == SelectSeq(tasks, LAMBDA t : t.priority <= priorityThreshold)
            IN /\ Selected(Len(runs)) + Len(selected) <= MaxSelected
               /\ warmedTasks' = {}
               /\ failedTasks' = {}
               /\ IF sorted = <<>>
                  THEN /\ isWarming' = FALSE
                       /\ runs' = Append(runs,
                              [groups |-> groups, sortedPriorities |-> sorted, tier |-> 0,
                               totalTasks |-> 0, results |-> <<>>, done |-> TRUE])
                       /\ ret' = [op |-> "warmCache", outcome |-> "return",
                                  result |-> WarmStats({}, {}, 0)]
                  ELSE /\ isWarming' = TRUE
                       /\ runs' = Append(runs,
                              [groups |-> groups, sortedPriorities |-> sorted, tier |-> 1,
                               totalTasks |-> Len(groups[sorted[1]]),
                               results |-> [n \in TierNames(groups[sorted[1]]) |-> "running"],
                               done |-> FALSE])
                       /\ ret' = [op |-> "warmCache", outcome |-> "pending"]

\* the task's fetcher settles, or its timer fires, while _executeTask is pending
TaskOutcomesNoTimer == {"fulfilled", "rejected"}

TaskOutcomes == {"fulfilled", "rejected", "timeout"}

TaskOf(run, name) ==
    LET tier == CurrentTier(run)
    IN tier[CHOOSE i \in DOMAIN tier : tier[i].name = name]

\* a default task's fetcher on a successful response: cacheService.set(key, data, namespace)
WarmWrite(cm, task, d) ==
    IF task.writes = ""
    THEN [store |-> cm.store, stats |-> cm.stats]
    ELSE SetEntry(cm, WarmKey(task.writes), PayloadObj(d), task.writes, NoTTL)

\* the fetch a default task's fetcher awaits, left pending by a timeout (with
\* MaxInflight fetches pending already, one more is a fetch that never resolves)
LateFetch(task) == [kind |-> "warm", writes |-> task.writes]

TaskSettles(runId, name, outcome) ==
    /\ runId \in DOMAIN runs
    /\ ~runs[runId].done
    /\ name \in DOMAIN runs[runId].results
    /\ runs[runId].results[name] = "running"
    /\ LET run == runs[runId]
           task == TaskOf(run, name)
           w == IF outcome = "fulfilled"
                THEN WarmWrite(CM, task, "d1")
                ELSE [store |-> store, stats |-> stats]
       IN /\ store' = w.store
          /\ stats' = w.stats
          /\ IF outcome = "timeout" /\ task.writes # "" /\ CanSuspend
             THEN inflight' = Suspend(LateFetch(task))
             ELSE inflight' = inflight
          /\ runs' = [runs EXCEPT ![runId].results[name] =
                        IF outcome = "fulfilled" THEN "fulfilled" ELSE "rejected"]
    /\ ret' = [op |-> "task", outcome |-> outcome]
    /\ UNCHANGED <<now, defaultTTLs, listeners, requestVars, reduxVars, currentUser, tasks,
                   isWarming, warmedTasks, failedTasks>>

\* the fetcher of a task that timed out settles later, unobserved by the run
LateFetchSettles(c, ok) ==
    /\ c \in BagToSet(inflight)
    /\ c.kind = "warm"
    /\ LET w == IF ok THEN WarmWrite(CM, c, "d1")
                ELSE [store |-> store, stats |-> stats]
       IN /\ store' = w.store
          /\ stats' = w.stats
    /\ inflight' = Resume(c)
    /\ ret' = [op |-> "lateFetch"]
    /\ UNCHANGED <<now, defaultTTLs, listeners, requestVars, reduxVars, warmerVars>>

\* warmCache from the point where Promise.allSettled of the tier resolves:
\* track results, notify progress, then start the next tier or finish
TierCompletes(runId) ==
    /\ runId \in DOMAIN runs
    /\ ~runs[runId].done
    /\ LET run == runs[runId]
           tier == CurrentTier(run)
           warmed == warmedTasks \cup
                        {n \in TierNames(tier) : run.results[n] = "fulfilled"}
           failed == failedTasks \cup
                        {n \in TierNames(tier) : run.results[n] = "rejected"}
           progress == [completed |-> Cardinality(warmed), failed |-> Cardinality(failed),
                        total |-> run.totalTasks,
                        currentPriority |-> run.sortedPriorities[run.tier]]
       IN /\ \A n \in TierNames(tier) : run.results[n] # "running"
          /\ warmedTasks' = warmed
          /\ failedTasks' = failed
          /\ IF run.tier < Len(run.sortedPriorities)
             THEN LET next == run.groups[run.sortedPriorities[run.tier + 1]]
                  IN /\ runs' = [runs EXCEPT ![runId] =
                            [run EXCEPT !.tier = @ + 1,
                                        !.totalTasks = @ + Len(next),
                                        !.results = [n \in DOMAIN run.results \cup TierNames(next)
                                                        |-> IF n \in TierNames(next)
                                                            THEN "running"
                                                            ELSE run.results[n]]]]
                     /\ isWarming' = isWarming
                     /\ ret' = [op |-> "tier", progress |-> progress, outcome |-> "pending"]
             ELSE /\ runs' = [runs EXCEPT ![runId].done = TRUE]
                  /\ isWarming' = FALSE
                  /\ ret' = [op |-> "tier", progress |-> progress, outcome |-> "return",
                             result |-> WarmStats(warmed, failed, run.totalTasks)]
    /\ UNCHANGED <<now, cacheVars, apiVars, currentUser, tasks>>

----------------------------------------------------------------------------
(* Specifications *)

Init ==
    /\ now = 0
    /\ store = <<>>
    /\ stats = InitStats
    /\ defaultTTLs = InitDefaultTTLs
    /\ listeners = <<>>
    /\ ret = [op |-> "init"]
    /\ inflight = EmptyBag
    /\ requestQueue = <<>>
    /\ requests = <<>>
    /\ reduxEntries = <<>>
    /\ currentUser = FALSE
    /\ tasks = InitTasks
    /\ isWarming = FALSE
    /\ warmedTasks = {}
    /\ failedTasks = {}
    /\ runs = <<>>

NextStore ==
    \/ Tick
    \/ \E k \in Keys, ns \in Namespaces : CallGet(k, ns)
    \/ \E k \in Keys, v \in Values, ns \in Namespaces, t \in TTLArgs : CallSet(k, v, ns, t)
    \/ \E k \in Keys, ns \in Namespaces : CallHas(k, ns)
    \/ \E k \in Keys, ns \in Namespaces : CallDelete(k, ns)
    \/ \E ns \in Namespaces \cup {""} : CallClear(ns)
    \/ \E p \in Patterns, ns \in Namespaces : CallInvalidatePattern(p, ns)
    \/ CallPrune

SpecStore == Init /\ [][NextStore]_vars

\* the store's entries: overwriting, export and import
EntryKeys == {"x"}
EntryNamespaces == {"a", "lessons"}

NextEntries ==
    \/ Tick
    \/ \E k \in EntryKeys, ns \in EntryNamespaces : CallGet(k, ns)
    \/ \E k \in EntryKeys, v \in Values, ns \in EntryNamespaces, t \in TTLArgs :
          CallSet(k, v, ns, t)
    \/ \E k \in EntryKeys, ns \in EntryNamespaces : CallDelete(k, ns)
    \/ CallImport(Export(CM))

SpecEntries == Init /\ [][NextEntries]_vars

\* the TTL set gives an entry
EntryTTLArgs == {NoTTL, TTL(0), TTL(-1), TTL(1)}
NamespaceTTLs == {2}

NextTTL ==
    \/ Tick
    \/ \E k \in EntryKeys, ns \in EntryNamespaces : CallGet(k, ns)
    \/ \E k \in EntryKeys, v \in Values, ns \in EntryNamespaces, t \in EntryTTLArgs :
          CallSet(k, v, ns, t)
    \/ \E k \in EntryKeys, ns \in EntryNamespaces : CallHas(k, ns)
    \/ \E ns \in EntryNamespaces, t \in NamespaceTTLs : CallSetNamespaceTTL(ns, t)

SpecTTL == Init /\ [][NextTTL]_vars

\* the store with invalidation listeners
ListenKeys == {"x"}
ListenValues == {PayloadObj("v1")}

NextListen ==
    \/ Tick
    \/ \E k \in ListenKeys, ns \in Namespaces : CallOnInvalidate(k, ns)
    \/ \E k \in ListenKeys, v \in ListenValues, ns \in Namespaces, t \in TTLArgs :
          CallSet(k, v, ns, t)
    \/ \E k \in ListenKeys, ns \in Namespaces : CallDelete(k, ns)
    \/ \E ns \in Namespaces \cup {""} : CallClear(ns)
    \/ \E p \in Patterns, ns \in Namespaces : CallInvalidatePattern(p, ns)
    \/ CallPrune

SpecListen == Init /\ [][NextListen]_vars

NextApi ==
    \/ Tick
    \/ \E a \in ApiCalls : CachedCall(a.call, a.strategy, a.skipCache, "direct")
    \/ \E caller \in DataCallers : DataServiceCalls(caller)
    \/ \E c \in BagToSet(inflight),
          outcome \in FetcherOutcomes(CustomCall) \cup FetcherOutcomes(GetProgress) :
          FetcherSettles(c, outcome)

SpecApi == Init /\ [][NextApi]_vars

NextMutation ==
    \/ Tick
    \/ \E call \in MutationReads : CachedCall(call, "cache-first", FALSE, "direct")
    \/ \E c \in BagToSet(inflight), outcome \in FetcherOutcomes(GetProgress) :
          FetcherSettles(c, outcome)
    \/ \E mutation \in Mutations : MutationCall(mutation)
    \/ \E c \in BagToSet(inflight), result \in {ApiOk("d1"), ApiFail} :
          MutationSettles(c, result)

SpecMutation == Init /\ [][NextMutation]_vars

NextWarmer ==
    \/ Login
    \/ \E name \in RegisterNames, priority \in RegisterPriorities : RegisterTask(name, priority)
    \/ Reset
    \/ \E threshold \in Thresholds : WarmCache(threshold)
    \/ \E runId \in DOMAIN runs :
          \E name \in DOMAIN runs[runId].results, outcome \in TaskOutcomes :
              TaskSettles(runId, name, outcome)
    \/ \E c \in BagToSet(inflight), ok \in BOOLEAN : LateFetchSettles(c, ok)
    \/ \E runId \in DOMAIN runs : TierCompletes(runId)

SpecWarmer == Init /\ [][NextWarmer]_vars

\* the warmer as the application drives it: warming runs that no reset() interrupts
NextWarmRun ==
    \/ Login
    \/ \E name \in RegisterNames, priority \in RegisterPriorities : RegisterTask(name, priority)
    \/ \E threshold \in Thresholds : WarmCache(threshold)
    \/ \E runId \in DOMAIN runs :
          \E name \in DOMAIN runs[runId].results, outcome \in TaskOutcomes :
              TaskSettles(runId, name, outcome)
    \/ \E c \in BagToSet(inflight), ok \in BOOLEAN : LateFetchSettles(c, ok)
    \/ \E runId \in DOMAIN runs : TierCompletes(runId)

SpecWarmRun == Init /\ [][NextWarmRun]_vars

\* the warming runs with the timers of _executeTask and the continuation of
\* warmCache scheduled: an armed timer fires unless its task settles first,
\* and warmCache resumes once Promise.allSettled of its tier has resolved
TimerFires ==
    \E runId \in DOMAIN runs :
        \E name \in DOMAIN runs[runId].results,
           outcome \in TaskOutcomes \ {"fulfilled", "rejected"} :
            TaskSettles(runId, name, outcome)

WarmCacheResumes == \E runId \in DOMAIN runs : TierCompletes(runId)

SpecWarmRunLive ==
    Init /\ [][NextWarmRun]_vars /\ WF_vars(TimerFires) /\ WF_vars(WarmCacheResumes)

\* apiService alone: requests, their network calls and retries
NextRequests ==
    \/ \E req \in ApiRequests : MakeRequest(req)
    \/ \E i \in DOMAIN requests, outcome \in NetworkOutcomes : NetworkSettles(i, outcome)
    \/ \E i \in DOMAIN requests : BackoffElapses(i)
    \/ ClearRequestQueue

SpecRequests == Init /\ [][NextRequests]_vars

\* the wrapper's lesson reads, and clearCache of the lessons namespace or of all
LessonReads == {GetAllLessons} \cup {GetLessonById(id) : id \in LessonIds}

NextLessons ==
    \/ Tick
    \/ \E call \in LessonReads : CachedCall(call, "cache-first", FALSE, "direct")
    \/ \E c \in BagToSet(inflight), outcome \in FetcherOutcomes(GetAllLessons) :
          FetcherSettles(c, outcome)
    \/ \E namespace \in {"lessons", ""} : ClearCache(namespace)

SpecLessons == Init /\ [][NextLessons]_vars

\* callers of cacheService.getOrFetch
FetchKeys == {[key |-> "lessons", namespace |-> "lessons"], [key |-> "x", namespace |-> "a"]}

NextFetch ==
    \/ Tick
    \/ \E k \in FetchKeys, ttl \in {NoTTL, TTL(ConfigLessonsTTL)} :
          GetOrFetch(k.key, k.namespace, ttl)
    \/ \E c \in BagToSet(inflight), outcome \in GetOrFetchOutcomes :
          GetOrFetchSettles(c, outcome)

SpecFetch == Init /\ [][NextFetch]_vars

\* a component using useCachedAPI('progress', apiService.getProgress,
\* {namespace: 'progress'}) next to callers of cachedAPIService.getProgress
HookKeys == {[cacheKey |-> "progress", namespace |-> "progress"]}

NextHook ==
    \/ Tick
    \/ \E h \in HookKeys : HookExecute(h.cacheKey, h.namespace)
    \/ \E c \in BagToSet(inflight), outcome \in FetcherOutcomes(GetProgress) :
          HookFetcherSettles(c, outcome.result)
    \/ \E h \in HookKeys : HookInvalidate(h.cacheKey, h.namespace)
    \/ CachedCall(GetProgress, "cache-first", FALSE, "direct")
    \/ \E c \in BagToSet(inflight), outcome \in FetcherOutcomes(GetProgress) :
          FetcherSettles(c, outcome)

SpecHook == Init /\ [][NextHook]_vars

\* a browser session: users log in and out, the application warms the cache
\* after a login (threshold HIGH, as App does) and reads progress cache-first
SessionReads == {GetProgress}
SessionThresholds == {HIGH}

NextSession ==
    \/ Login
    \/ Logout
    \/ \E call \in SessionReads : CachedCall(call, "cache-first", FALSE, "direct")
    \/ \E c \in BagToSet(inflight), outcome \in FetcherOutcomes(GetProgress) :
          FetcherSettles(c, outcome)
    \/ \E threshold \in SessionThresholds : WarmCache(threshold)
    \/ \E runId \in DOMAIN runs :
          \E name \in DOMAIN runs[runId].results, outcome \in TaskOutcomes :
              TaskSettles(runId, name, outcome)
    \/ \E c \in BagToSet(inflight), ok \in BOOLEAN : LateFetchSettles(c, ok)
    \/ \E runId \in DOMAIN runs : TierCompletes(runId)

SpecSession == Init /\ [][NextSession]_vars

----------------------------------------------------------------------------
(* Properties of the cache store, checked under SpecStore *)

\* what get(key, namespace) would return in this state
Peek(key, namespace) ==
    LET cacheKey == BuildKey(key, namespace)
    IN IF cacheKey \in DOMAIN store /\ IsValid(store[cacheKey])
       THEN store[cacheKey].data
       ELSE Null

\* the key of a stored entry without its namespace prefix
BareKey(cacheKey, namespace) == Substring(cacheKey, Len(namespace) + 1)

\* C1: a get of a stored entry returns the entry's value exactly when
\* now - timestamp < ttl; otherwise it returns null and the entry is gone
\* from the store after the call.
C1_TTLCorrectness ==
    [][\A k \in Keys, ns \in Namespaces :
         (CallGet(k, ns) /\ BuildKey(k, ns) \in DOMAIN store) =>
            LET e == store[BuildKey(k, ns)]
            IN /\ (ret'.value = e.data) <=> (now - e.timestamp < e.ttl)
               /\ (now - e.timestamp >= e.ttl) =>
                     (ret'.value = Null /\ BuildKey(k, ns) \notin DOMAIN store')]_vars

\* C1 witness: the last call was a get that found an expired entry (it
\* returned null without counting a miss) after the clock had advanced.
C1_Witness ==
    /\ ret.op = "get"
    /\ ret.value = Null
    /\ stats.misses = 0
    /\ stats.invalidations = 1
    /\ now > 0

\* C8: clear(a) removes every entry of namespace a and leaves what get returns
\* for every key of every other namespace b unchanged.
C8_NamespaceIsolation ==
    [][\A a \in Namespaces, b \in Namespaces :
         (a # b /\ CallClear(a)) =>
            /\ \A k \in Keys : BuildKey(k, a) \notin DOMAIN store'
            /\ \A k \in Keys : Peek(k, b)' = Peek(k, b)]_vars

\* C9: a set, a delete or an expiry (a get or has that finds the entry
\* invalid) at (ns1, k1) leaves what get returns at every other (ns2, k2)
\* unchanged.
C9_UniqueAddress ==
    [][\A k1 \in Keys, ns1 \in Namespaces, k2 \in Keys, ns2 \in Namespaces :
         (/\ <<ns1, k1>> # <<ns2, k2>>
          /\ \/ \E v \in Values, t \in TTLArgs : CallSet(k1, v, ns1, t)
             \/ CallDelete(k1, ns1)
             \/ CallGet(k1, ns1)
             \/ CallHas(k1, ns1)) =>
            Peek(k2, ns2)' = Peek(k2, ns2)]_vars

\* C10: invalidatePattern(pattern, namespace) removes exactly the entries of
\* the namespace whose bare key matches the pattern, keeps every other entry
\* as it is, and returns the number of entries it removed.
C10_PatternOnBareKey ==
    [][\A p \in Patterns, ns \in Namespaces :
         CallInvalidatePattern(p, ns) =>
            LET target == {ck \in DOMAIN store :
                              /\ StartsWith(ck, ns \o ":")
                              /\ RegexTest(p, BareKey(ck, ns))}
            IN /\ DOMAIN store' = DOMAIN store \ target
               /\ \A ck \in DOMAIN store' : store'[ck] = store[ck]
               /\ ret'.count = Cardinality(target)]_vars

----------------------------------------------------------------------------
(* Properties of cachedCall and DataService, checked under SpecApi *)

\* C2: no cachedCall with strategy 'cache-only' (and caching not skipped) is
\* ever waiting for its fetcher, i.e. cache-only never invokes the fetcher.
C2_CacheOnlyNeverFetches ==
    \A c \in BagToSet(inflight) :
        (c.kind = "read" /\ ~c.skipCache) => c.strategy # "cache-only"

\* C5: a wrapper read method served from a valid cache entry returns what a
\* successful network fetch returns (success with the data), and its
\* DataService caller reports success with that data.
C5_CachingTransparent ==
    (/\ ret.op = "cachedCall"
     /\ ret.outcome = "return"
     /\ ret.source = "cache"
     /\ ret.method # "cachedCall") =>
        /\ Field(ret.result, "success") = "true"
        /\ Field(ret.result, "data") \in Payloads
        /\ ret.caller \in DataCallers =>
              ret.callerResult =
                  DataServiceReturn(ret.caller, "return", ApiOk(Field(ret.result, "data")))

----------------------------------------------------------------------------
(* Properties of the mutation methods, checked under SpecMutation *)

\* the invalidation table as the documentation states it
ClaimedInvalidations(mutation) ==
    CASE mutation = "completeLesson" ->
            {[key |-> "all_lessons", namespace |-> "lessons"],
             [key |-> "progress", namespace |-> "progress"]}
      [] mutation = "updateProgress" ->
            {[key |-> "progress", namespace |-> "progress"]}
      [] mutation = "updateStreak" ->
            {[key |-> "streak", namespace |-> "streak"],
             [key |-> "progress", namespace |-> "progress"]}

MutationSucceeded ==
    /\ ret.op = "mutation"
    /\ ret.outcome = "return"
    /\ Truthy(Field(ret.result, "success"))

\* C6: when a mutation has just returned success, every entry of its
\* invalidation table is absent from the store, and a cache-first read of such
\* an entry made next does not return from the cache: it invokes its fetcher.
C6_MutationInvalidates ==
    /\ [](MutationSucceeded =>
            \A e \in ClaimedInvalidations(ret.mutation) :
                /\ BuildKey(e.key, e.namespace) \notin DOMAIN store
                /\ Peek(e.key, e.namespace) = Null)
    /\ [][\A call \in MutationReads :
            (/\ MutationSucceeded
             /\ [key |-> call.cacheKey,
                 namespace |-> GetCacheConfig(call.endpoint).namespace]
                    \in ClaimedInvalidations(ret.mutation)
             /\ CachedCall(call, "cache-first", FALSE, "direct")) =>
                /\ ret'.outcome = "pending"
                /\ BagCardinality(inflight') = BagCardinality(inflight) + 1]_vars

\* C6 witness: completeLesson has just returned success and its two
\* invalidations each deleted a cached entry (nothing can have expired yet).
C6_Witness ==
    /\ MutationSucceeded
    /\ ret.mutation = "completeLesson"
    /\ stats.invalidations = 2
    /\ now = 0

\* C7: a mutation that returns a failure result leaves the store as it was.
C7_FailedMutationKeepsCache ==
    [][(/\ ret'.op = "mutation"
        /\ ret'.outcome = "return"
        /\ ~Truthy(Field(ret'.result, "success"))) =>
           /\ store' = store
           /\ \A call \in MutationReads :
                 Peek(call.cacheKey, GetCacheConfig(call.endpoint).namespace)' =
                 Peek(call.cacheKey, GetCacheConfig(call.endpoint).namespace)]_vars

\* C7 witness: updateStreak has just returned a failure while the two entries
\* it would have invalidated are cached.
C7_Witness ==
    /\ ret.op = "mutation"
    /\ ret.outcome = "return"
    /\ ret.mutation = "updateStreak"
    /\ ret.result = ApiFail
    /\ BuildKey("streak", "streak") \in DOMAIN store
    /\ BuildKey("progress", "progress") \in DOMAIN store

\* the tasks of a run's tier whose fetcher has been invoked
Started(run, pr) == TierNames(run.groups[pr]) \cap DOMAIN run.results

\* every task of a run's tier has settled
Settled(run, pr) ==
    \A n \in TierNames(run.groups[pr]) :
        n \in DOMAIN run.results /\ run.results[n] # "running"

\* C3: within a warming run, no task of a tier has been started unless every
\* task of every selected tier of numerically lower priority has settled, for
\* the default tasks and tasks registered with any priority (such as 10).
C3_TiersInNumericOrder ==
    \A r \in DOMAIN runs :
        \A pt \in DOMAIN runs[r].groups, pu \in DOMAIN runs[r].groups :
            (pu < pt /\ Started(runs[r], pt) # {}) => Settled(runs[r], pu)

\* C4: at most one warming run is in progress at any time, whatever the
\* interleaving of warmCache, reset, registerTask and task completions.
C4_SingleWarmingRun == Cardinality(InProgress) <= 1

\* the callbacks registered for cacheKey that the step just taken invoked
Invocations(cacheKey) ==
    IF "notified" \in DOMAIN ret /\ cacheKey \in DOMAIN ret.notified
    THEN ret.notified[cacheKey]
    ELSE 0

\* C11: whenever delete, clear (with or without a namespace),
\* invalidatePattern or prune removes an entry that has listeners, each of
\* its callbacks is invoked once, and no callback of an entry that the step
\* does not remove is invoked.
C11_ListenerOnEveryRemoval ==
    [][ret'.op \in {"delete", "clear", "invalidatePattern", "prune"} =>
          \A cacheKey \in DOMAIN listeners :
              Invocations(cacheKey)' =
                  IF cacheKey \in DOMAIN store /\ cacheKey \notin DOMAIN store'
                  THEN listeners[cacheKey]
                  ELSE 0]_vars

----------------------------------------------------------------------------
(* Properties of the strategies of cachedCall, checked under SpecApi *)

\* every way a fetcher of the model can settle
AllOutcomes == FetcherOutcomes(CustomCall) \cup FetcherOutcomes(GetProgress)

\* a returned result that indicates failure: its success flag is false, or it
\* has no success flag and carries an error
FailureShaped(result) ==
    \/ Field(result, "success") = "false"
    \/ "success" \notin DOMAIN result /\ Truthy(Field(result, "error"))

\* the fetcher failed: it threw or returned a failure-shaped result
FetcherFailed(outcome) == outcome.kind = "throw" \/ FailureShaped(outcome.result)

\* the namespace cachedCall uses for a call
NamespaceOf(call) == GetCacheConfig(call.endpoint).namespace

\* C12: when the fetcher of a 'network-first' call fails (throws or returns a
\* failure-shaped result), the call returns the cached value tagged
\* 'cache-fallback' if a valid entry exists for its key, and otherwise
\* propagates the error or the failure result unchanged.
C12_NetworkFirstFallback ==
    [][\A c \in BagToSet(inflight), outcome \in AllOutcomes :
          (/\ FetcherSettles(c, outcome)
           /\ c.strategy = "network-first"
           /\ ~c.skipCache
           /\ FetcherFailed(outcome)) =>
              IF Peek(c.call.cacheKey, NamespaceOf(c.call)) # Null
              THEN /\ ret'.outcome = "return"
                   /\ ret'.result =
                          Spread(Peek(c.call.cacheKey, NamespaceOf(c.call)),
                                 "_source", "cache-fallback")
              ELSE /\ ret'.outcome = outcome.kind
                   /\ ret'.result = outcome.result]_vars

\* C13: a fetcher result that indicates failure is returned to the caller
\* unchanged and leaves the store unchanged, under every strategy.
C13_FailureNeverCached ==
    [][\A c \in BagToSet(inflight), outcome \in AllOutcomes :
          (/\ FetcherSettles(c, outcome)
           /\ outcome.kind = "return"
           /\ FailureShaped(outcome.result)) =>
              /\ store' = store
              /\ ret'.outcome = "return"
              /\ ret'.result = outcome.result]_vars

\* C14: a 'cache-first' call made while the store holds a valid entry for
\* its key returns the cached data (tagged as coming from the cache) without
\* invoking the fetcher; a 'network-only' call invokes the fetcher once
\* without reading the store, whatever the store holds, and on a successful
\* result the data is written to the store.
C14_CacheFirstAndNetworkOnly ==
    [][/\ \A call \in ReadCalls, caller \in DataCallers \cup {"direct"} :
             (/\ CachedCall(call, "cache-first", FALSE, caller)
              /\ Peek(call.cacheKey, NamespaceOf(call)) # Null) =>
                 /\ inflight' = inflight
                 /\ ret'.outcome = "return"
                 /\ ret'.result =
                        Spread(Peek(call.cacheKey, NamespaceOf(call)), "_source", "cache")
       /\ \A call \in ReadCalls :
             CachedCall(call, "network-only", FALSE, "direct") =>
                 /\ BagCardinality(inflight') = BagCardinality(inflight) + 1
                 /\ CopiesIn([kind |-> "read", call |-> call, strategy |-> "network-only",
                               skipCache |-> FALSE, caller |-> "direct"], inflight') =
                    CopiesIn([kind |-> "read", call |-> call, strategy |-> "network-only",
                              skipCache |-> FALSE, caller |-> "direct"], inflight) + 1
                 /\ store' = store
                 /\ stats' = stats
       /\ \A c \in BagToSet(inflight), outcome \in AllOutcomes :
             (/\ FetcherSettles(c, outcome)
              /\ c.strategy = "network-only"
              /\ ~c.skipCache
              /\ outcome.kind = "return"
              /\ Truthy(Field(outcome.result, "success"))) =>
                 /\ Peek(c.call.cacheKey, NamespaceOf(c.call))' =
                        PayloadObj(Field(outcome.result, "data"))
                 /\ stats'.writes = stats.writes + 1
                 /\ ret'.result = outcome.result]_vars

\* C14 witness: a 'network-only' call is waiting for its fetcher while the
\* store holds a valid entry for its key, and the last call, a 'cache-first'
\* one, was served from that entry.
C14_Witness ==
    /\ \E c \in BagToSet(inflight) :
          /\ c.kind = "read"
          /\ c.strategy = "network-only"
          /\ ~c.skipCache
          /\ Peek(c.call.cacheKey, NamespaceOf(c.call)) # Null
    /\ ret.op = "cachedCall"
    /\ ret.outcome = "return"
    /\ ret.source = "cache"

----------------------------------------------------------------------------
(* Properties of the warming runs *)

\* the names of the tasks a run selected
SelectedNames(run) == UNION {TierNames(run.groups[pr]) : pr \in DOMAIN run.groups}

\* the tasks of a run recorded with status
Recorded(run, status) == {n \in DOMAIN run.results : run.results[n] = status}

----------------------------------------------------------------------------
(* Properties of the store's counters and entries *)

Counters == {"hits", "misses", "invalidations", "writes"}

\* C17: clear() with no namespace resets the four cumulative counters to
\* zero, and no other operation decreases any of them.
C17_CountersResetOnlyByClearAll ==
    [][/\ CallClear("") => stats' = InitStats
       /\ CallClear("") \/ \A c \in Counters : stats'[c] >= stats[c]]_vars

\* the TTL the documentation gives an entry written without a ttl argument
ClaimedDefaultTTL(namespace) ==
    IF namespace \in DOMAIN defaultTTLs THEN defaultTTLs[namespace] ELSE DefaultTTL

\* C18: set gives the entry the explicit ttl when one is passed, else the
\* namespace's default, else the global default of 10 minutes; with an
\* explicit ttl of zero or below the entry is expired at once: get returns
\* null for it and has reports it absent.
C18_TTLResolution ==
    [][\A k \in EntryKeys, v \in Values, ns \in EntryNamespaces, t \in EntryTTLArgs :
          CallSet(k, v, ns, t) =>
              /\ (t.given /\ t.ms > 0) => store'[BuildKey(k, ns)].ttl = t.ms
              /\ ~t.given => store'[BuildKey(k, ns)].ttl = ClaimedDefaultTTL(ns)
              /\ (t.given /\ t.ms <= 0) =>
                    /\ Peek(k, ns)' = Null
                    /\ ~Has(CM, k, ns).found']_vars

\* C19: import(export()) keeps every entry, with the same value, TTL and
\* access count, the same validity and remaining time to live, and the same
\* instant of expiry.
C19_ExportImportRoundTrip ==
    [][CallImport(Export(CM)) =>
          /\ DOMAIN store' = DOMAIN store
          /\ \A k \in DOMAIN store :
                /\ store'[k].data = store[k].data
                /\ store'[k].ttl = store[k].ttl
                /\ store'[k].accessCount = store[k].accessCount
                /\ IsValid(store[k])' = IsValid(store[k])
                /\ GetTimeToLive(store[k])' = GetTimeToLive(store[k])
                /\ store'[k].timestamp + store'[k].ttl = store[k].timestamp + store[k].ttl]_vars

\* C19 witness: the store has just been re-imported from its export, and it
\* holds an entry written a minute earlier that has been read once.
C19_Witness ==
    /\ ret.op = "import"
    /\ \E k \in DOMAIN store :
          /\ store[k].timestamp < now
          /\ store[k].accessCount = 1
          /\ IsValid(store[k])

\* C20: a set on a key that already holds an entry replaces it: the store
\* holds one entry for the key, with the new value, which get returns while
\* the entry is valid, and each set adds one to the write counter.
C20_SetOverwrites ==
    [][\A k \in EntryKeys, v \in Values, ns \in EntryNamespaces, t \in TTLArgs :
          (CallSet(k, v, ns, t) /\ BuildKey(k, ns) \in DOMAIN store) =>
              /\ DOMAIN store' = DOMAIN store
              /\ store'[BuildKey(k, ns)].data = v
              /\ IsValid(store[BuildKey(k, ns)])' => Get(CM, k, ns).value' = v
              /\ \A other \in DOMAIN store \ {BuildKey(k, ns)} : store'[other] = store[other]
              /\ stats'.writes = stats.writes + 1]_vars

\* C20 witness: x in namespace a was set to v1 and read, then set to v2: the
\* store holds the one entry with v2 and two writes are counted.
C20_Witness ==
    /\ ret.op = "set"
    /\ now = 0
    /\ stats = [hits |-> 1, misses |-> 0, invalidations |-> 0, writes |-> 2]
    /\ DOMAIN store = {BuildKey("x", "a")}
    /\ store[BuildKey("x", "a")].data = PayloadObj("v2")
    /\ store[BuildKey("x", "a")].accessCount = 0

----------------------------------------------------------------------------
(* Properties of a session, checked under SpecSession *)

\* C21: a warmCache call made while no user is authenticated does nothing: it
\* starts no task (no run is added, no fetch is left pending), leaves
\* isWarming, the warmed and failed sets and the store as they are, notifies
\* nobody (the call's only event is its return) and returns false.
C21_NoUserNoWarming ==
    [][\A threshold \in SessionThresholds :
          (WarmCache(threshold) /\ ~currentUser) =>
              /\ UNCHANGED <<isWarming, warmedTasks, failedTasks, runs, inflight,
                             store, stats>>
              /\ ret'.op = "warmCache"
              /\ ret'.outcome = "return"
              /\ ret'.result = FALSE]_vars

\* warmCache returned false with nobody logged in, after a run of an earlier
\* login had filled the warmed set
C21_Witness ==
    /\ ~currentUser
    /\ ret.op = "warmCache"
    /\ ret.outcome = "return"
    /\ ret.result = FALSE
    /\ warmedTasks # {}

\* C22: once logout has completed the Cache Store holds nothing of the session
\* that ended: a cache-first read of progress or of the lessons made right after
\* the logout finds no entry, whether the wrapper or the warmer wrote it.
C22_LogoutLeavesNoSessionData ==
    [][Logout =>
          /\ Peek("progress", "progress")' = Null
          /\ Peek("all_lessons", "lessons")' = Null]_vars

----------------------------------------------------------------------------
(* Properties of apiService, checked under SpecRequests *)

\* C23: in-flight requests are deduplicated: at no time are two network
\* calls under way for the same request key METHOD:URL:DATA.
C23_OneCallPerRequestKey ==
    \A i, j \in OnNetwork :
        i # j =>
            GetRequestKey(requests[i].config.method, requests[i].config.url,
                          requests[i].config.data)
                # GetRequestKey(requests[j].config.method, requests[j].config.url,
                                requests[j].config.data)

\* C24: a request is sent at most 1 + 2 times; it is sent again only after a
\* failure without a response; a failure that carries a response, or the
\* failure of the last attempt, resolves the apiService method with the
\* normalized failure {success: false, error, errorType}.
C24_BoundedRetries ==
    [][\A i \in DOMAIN requests, outcome \in NetworkOutcomes :
          NetworkSettles(i, outcome) =>
              /\ requests'[i].attempts <= 1 + MaxRetries
              /\ requests'[i].config.retryCount <= MaxRetries
              /\ requests'[i].state = "backoff" =>
                    outcome.kind = "error" /\ outcome.response = "none"
              /\ (outcome.kind = "error" /\
                    (outcome.response # "none" \/ requests[i].attempts = 1 + MaxRetries)) =>
                    /\ requests'[i].state = "done"
                    /\ ret'.op = "makeRequest"
                    /\ ret'.outcome = "return"
                    /\ ret'.result.success = "false"
                    /\ Truthy(ret'.result.error)
                    /\ ret'.result.errorType = GetErrorType(outcome)]_vars

\* a request resolved with the network failure after its third attempt
C24_Witness ==
    \E i \in DOMAIN requests :
        /\ requests[i].state = "done"
        /\ requests[i].attempts = 1 + MaxRetries
        /\ requests[i].result.success = "false"
        /\ requests[i].result.errorType = "NETWORK_ERROR"

----------------------------------------------------------------------------
(* Properties of the warming runs, checked under SpecWarmRun *)

\* the registered tasks a threshold admits
Admitted(threshold) ==
    {tasks[i].name : i \in {j \in DOMAIN tasks : tasks[j].priority <= threshold}}

\* C25: a warming run selects exactly the registered tasks whose priority is
\* at most the threshold (with threshold HIGH: the CRITICAL and HIGH tasks,
\* nothing of a lower priority), invokes the fetcher of selected tasks only,
\* never invokes a fetcher twice, and has invoked every selected task's
\* fetcher when it completes.
C25_RunsExactlyTheAdmittedTasks ==
    [][/\ \A threshold \in Thresholds :
            (WarmCache(threshold) /\ ~WarmCacheSkips) =>
                /\ SelectedNames(runs'[Len(runs')]) = Admitted(threshold)
                /\ threshold = HIGH =>
                      \A i \in DOMAIN tasks :
                          tasks[i].name \in SelectedNames(runs'[Len(runs')])
                              <=> tasks[i].priority \in {CRITICAL, HIGH}
       /\ \A r \in DOMAIN runs : \A n \in DOMAIN runs[r].results :
               /\ n \in DOMAIN runs'[r].results
               /\ runs[r].results[n] # "running" =>
                      runs'[r].results[n] = runs[r].results[n]
       /\ \A r \in DOMAIN runs' :
               /\ DOMAIN runs'[r].results \subseteq SelectedNames(runs'[r])
               /\ runs'[r].done => DOMAIN runs'[r].results = SelectedNames(runs'[r])]_vars

\* a run with threshold HIGH completed having run the CRITICAL and the HIGH
\* task, with a MEDIUM task and a task of priority 10 registered
C25_Witness ==
    \E r \in DOMAIN runs :
        /\ runs[r].done
        /\ DOMAIN runs[r].results = {"getUserProgress", "getLessons"}
        /\ \E i \in DOMAIN tasks : tasks[i].name = "extra"
        /\ \E i \in DOMAIN tasks : tasks[i].priority = MEDIUM

\* C26: the progress notification of a tier is emitted once every task of the
\* tier has settled and before a task of the next tier starts; it carries the
\* numbers of tasks warmed and failed so far and, as total, the number of
\* tasks selected for the run, the same in every notification of the run.
C26_ProgressCarriesTheRunTotal ==
    [][\A r \in DOMAIN runs :
          TierCompletes(r) =>
              /\ \A n \in TierNames(CurrentTier(runs[r])) : runs[r].results[n] # "running"
              /\ ret'.op = "tier"
              /\ ret'.progress.completed = Cardinality(warmedTasks')
              /\ ret'.progress.failed = Cardinality(failedTasks')
              /\ ret'.progress.total = Cardinality(SelectedNames(runs[r]))]_vars

----------------------------------------------------------------------------
(* Reads racing with mutations, checked under SpecMutation *)

\* C27: no stale write-back: a read that was awaiting the network when a
\* successful mutation invalidated its cache key does not, when its fetcher
\* settles afterwards, leave a value for that key in the store.
C27_NoStaleWriteBack ==
    [][\A c \in BagToSet(inflight), outcome \in FetcherOutcomes(GetProgress) :
          (/\ ret.op = "mutation"
           /\ ret.outcome = "return"
           /\ ShouldInvalidate(ret.result)
           /\ c.kind = "read"
           /\ \E i \in DOMAIN MutationInvalidations(ret.mutation) :
                  /\ MutationInvalidations(ret.mutation)[i].key = c.call.cacheKey
                  /\ MutationInvalidations(ret.mutation)[i].namespace = NamespaceOf(c.call)
           /\ FetcherSettles(c, outcome))
              => Peek(c.call.cacheKey, NamespaceOf(c.call))' = Null]_vars

----------------------------------------------------------------------------
(* Properties of useCachedAPI, checked under SpecHook *)

\* C28: execute with strategy 'cache-first' returns the cached value with
\* source 'cache', and does not invoke its fetcher, whenever the Cache Store
\* holds a valid entry for (namespace, cacheKey), whoever wrote the entry.
C28_HookServesValidEntries ==
    [][\A h \in HookKeys :
          (HookExecute(h.cacheKey, h.namespace) /\ Peek(h.cacheKey, h.namespace) # Null) =>
              /\ ret'.outcome = "return"
              /\ ret'.source = "cache"
              /\ ret'.data = Peek(h.cacheKey, h.namespace)
              /\ inflight' = inflight]_vars

----------------------------------------------------------------------------
(* Properties of cacheService.getOrFetch, checked under SpecFetch *)

\* C29: getOrFetch never caches a failed fetch: when its fetcher throws, or
\* resolves with a failure-shaped result such as {success: false, error},
\* the store is left as it is.
C29_GetOrFetchNeverCachesFailure ==
    [][\A c \in BagToSet(inflight), outcome \in GetOrFetchOutcomes :
          (GetOrFetchSettles(c, outcome) /\ FetcherFailed(outcome)) =>
              store' = store]_vars

----------------------------------------------------------------------------
(* Properties of the wrapper's lesson reads, checked under SpecLessons *)

\* C30: a lesson read (getAllLessons, getLessonById) that caches its result
\* writes one entry, in namespace 'lessons' and with the lessons TTL; and
\* right after clearCache('lessons') no lesson read is served from the cache.
C30_LessonReadsUseLessonsNamespace ==
    [][/\ \A c \in BagToSet(inflight), outcome \in FetcherOutcomes(GetAllLessons) :
            (FetcherSettles(c, outcome) /\ store' # store) =>
                LET cacheKey == BuildKey(c.call.cacheKey, "lessons")
                IN /\ cacheKey \in DOMAIN store'
                   /\ store'[cacheKey].ttl = ConfigLessonsTTL
                   /\ \A k \in DOMAIN store' \ {cacheKey} :
                          k \in DOMAIN store /\ store'[k] = store[k]
       /\ ClearCache("lessons") =>
            \A call \in LessonReads :
                Peek(call.cacheKey, NamespaceOf(call))' = Null]_vars

====
